---------------------------- MODULE Spec2Model ----------------------------
(***************************************************************************)
(* Key/modifier press-state trackers (useKeyboard) and the Escape-to-hide  *)
(* listener (useEscape) of spotless, over the window's listener list.      *)
(*                                                                         *)
(* A hook instance is a tracker (useKeyboard) or a consumer (useEscape).   *)
(* React runs an effect's cleanup and its next setup in one commit; a      *)
(* mount, an unmount and a change of the `code` prop are therefore one     *)
(* step each.  window's listeners are kept as a bag: a handler writes only *)
(* the state of the instance that registered it, so the order in which an  *)
(* event reaches them is not observable, while a handler registered twice  *)
(* or left behind is.                                                      *)
(***************************************************************************)
EXTENDS Naturals, FiniteSets, Sequences, Bags

(* ------------------------------ bounds -------------------------------- *)
\* number of useKeyboard instances that may be mounted at once
NumTrackers == 2
\* number of components that may call useEscape at once
NumConsumers == 1
\* Escape key-downs delivered in one run
MaxEscapes == 2
\* characters that follow a marker in an identifier given to getLabelFromCode
MaxTail == 2

Trackers == 1..NumTrackers
Consumers == 1..NumConsumers

(* --------------------------- static tables ---------------------------- *)
\* variant: the Alt entry was copied from Meta and kept one of its codes
modifiers_Overlap ==
    [ Alt     |-> [codes |-> {"AltLeft", "MetaRight"}],
      Control |-> [codes |-> {"ControlLeft", "ControlRight"}],
      Meta    |-> [codes |-> {"MetaLeft", "MetaRight"}],
      Shift   |-> [codes |-> {"ShiftLeft", "ShiftRight"}] ]

\* const modifiers = { Alt: {codes: [...]}, Control: ..., Meta: ..., Shift: ... }
modifiers ==
    [ Alt     |-> [codes |-> {"AltLeft", "AltRight"}],
      Control |-> [codes |-> {"ControlLeft", "ControlRight"}],
      Meta    |-> [codes |-> {"MetaLeft", "MetaRight"}],
      Shift   |-> [codes |-> {"ShiftLeft", "ShiftRight"}] ]

\* Object.keys(modifiers).includes(code)
getIsModifier(code) == code \in DOMAIN modifiers

(* ------------------------------ inputs -------------------------------- *)
\* the `code` prop of a tracker; "" is the empty/undefined target
Targets == {"", "KeyK", "Shift"}

\* physical keys of the events: <<KeyboardEvent.code, KeyboardEvent.key>>
PhysicalKeys ==
    { <<"KeyK", "k">>, <<"KeyJ", "j">>, <<"ShiftLeft", "Shift">>,
      <<"ShiftRight", "Shift">>, <<"Escape", "Escape">> }

\* meta/alt are what e.getModifierState("Meta") / ("Alt") answer; only
\* handleKeyUp asks, so a key-down carries no flags
KeyDownEvents ==
    { [type |-> "keydown", code |-> k[1], key |-> k[2], meta |-> FALSE, alt |-> FALSE] :
        k \in PhysicalKeys }

KeyUpEvents ==
    { [type |-> "keyup", code |-> k[1], key |-> k[2], meta |-> m, alt |-> a] :
        k \in PhysicalKeys, m \in BOOLEAN, a \in BOOLEAN }

KeyEvents == KeyDownEvents \cup KeyUpEvents

BlurEvent == [type |-> "blur", code |-> "", key |-> "", meta |-> FALSE, alt |-> FALSE]

Events == KeyEvents \cup {BlurEvent}

\* the keys sent to a component that calls useModifiers: both members of
\* each group and one key of no group
ModifierKeys ==
    { <<"ShiftLeft", "Shift">>, <<"ShiftRight", "Shift">>,
      <<"ControlLeft", "Control">>, <<"ControlRight", "Control">>,
      <<"AltLeft", "Alt">>, <<"AltRight", "Alt">>,
      <<"MetaLeft", "Meta">>, <<"MetaRight", "Meta">>, <<"KeyK", "k">> }

ModifierEvents ==
    { [type |-> "keydown", code |-> k[1], key |-> k[2], meta |-> FALSE, alt |-> FALSE] :
        k \in ModifierKeys }
    \cup
    { [type |-> "keyup", code |-> k[1], key |-> k[2], meta |-> m, alt |-> a] :
        k \in ModifierKeys, m \in BOOLEAN, a \in BOOLEAN }
    \cup {BlurEvent}

NoEvent == [type |-> "none", code |-> "", key |-> "", meta |-> FALSE, alt |-> FALSE]

(* ------------------------------- state -------------------------------- *)
VARIABLES
    mounted,      \* mounted[i]: tracker i (a useKeyboard instance) is mounted
    target,       \* target[i]: its current `code` argument
    pressed,      \* pressed[i]: its useState value
    listeners,    \* the handlers registered on window
    escMounted,   \* escMounted[c]: consumer c (a useEscape instance) is mounted
    hides,        \* hides[c]: invoke("hide") calls made by consumer c's handler
    last,         \* the step just taken, with what it did to the event
    \* history variables, written by no handler
    held,         \* held[i]: member keys of i's group held per the events i saw
    armed,        \* armed[i]: a key-down of i's plain key is not yet disqualified
    tracked,      \* tracked[i]: i's history is kept in held and armed: its
                  \* handlers were bound while pressed was false, so the
                  \* history since is one of events only
    solo,         \* solo[i]: pressed state of i tracked on its own
    escDowns,     \* escDowns[c]: Escape key-downs delivered while c was mounted
    \* the host and the caller of useEscape
    outcome,      \* outcome[c]: the promises of c's invoke("hide") calls that
                  \* are pending, resolved (ok) and rejected (failed)
    onEscapeCalls, \* onEscapeCalls[c]: calls of the onEscape that c was given
    \* the label helper
    labelCode,    \* the argument of the latest getLabelFromCode call
    label         \* what that call returned

vars == << mounted, target, pressed, listeners, escMounted, hides, last,
           held, armed, tracked, solo, escDowns, outcome, onEscapeCalls,
           labelCode, label >>

\* what the steps of the hooks leave alone
helperVars == << labelCode, label >>

hostVars == << outcome, onEscapeCalls >>


(* ------------------------- window's listeners ------------------------- *)
\* one registered handler: the closure of tracker/consumer `owner`, with
\* the `code` and `isModifier` it captured when its effect ran
Listener(hook, owner, kind, code) ==
    [hook |-> hook, owner |-> owner, kind |-> kind, code |-> code,
     isModifier |-> getIsModifier(code)]

\* window.addEventListener(kind, handler), handler a closure made by this run
addEventListener(ls, l) == ls (+) SetToBag({l})

\* variant: the handlers of one hook, kind and code are one shared function,
\* so removing it removes it for every instance
removeEventListener_Shared(ls, l) ==
    LET keep == { x \in BagToSet(ls) :
                    ~(x.hook = l.hook /\ x.kind = l.kind /\ x.code = l.code) }
    IN  [x \in keep |-> ls[x]]

\* window.removeEventListener(kind, handler): drops that handler, if present
removeEventListener(ls, l) == ls (-) SetToBag({l})

\* variant: no early return for an empty code
KeyboardEffect_NoGuard(ls, i, code) ==
    addEventListener(
      addEventListener(
        addEventListener(ls, Listener("useKeyboard", i, "keydown", code)),
        Listener("useKeyboard", i, "keyup", code)),
      Listener("useKeyboard", i, "blur", code))

\* useKeyboard's effect body: nothing for an empty code, else three handlers
KeyboardEffect(ls, i, code) ==
    IF code = "" THEN ls
    ELSE addEventListener(
           addEventListener(
             addEventListener(ls, Listener("useKeyboard", i, "keydown", code)),
             Listener("useKeyboard", i, "keyup", code)),
           Listener("useKeyboard", i, "blur", code))

\* variant: the cleanup forgets the blur handler
KeyboardCleanup_LeavesBlur(ls, i, code) ==
    IF code = "" THEN ls
    ELSE removeEventListener(
           removeEventListener(ls, Listener("useKeyboard", i, "keydown", code)),
           Listener("useKeyboard", i, "keyup", code))

\* variant: the effect returns no cleanup
KeyboardCleanup_None(ls, i, code) == ls

\* the cleanup that effect returned: none for an empty code
KeyboardCleanup(ls, i, code) ==
    IF code = "" THEN ls
    ELSE removeEventListener(
           removeEventListener(
             removeEventListener(ls, Listener("useKeyboard", i, "keydown", code)),
             Listener("useKeyboard", i, "keyup", code)),
           Listener("useKeyboard", i, "blur", code))

\* useEscape's effect body and its cleanup
EscapeEffect(ls, c) == addEventListener(ls, Listener("useEscape", c, "keydown", ""))

\* variant: the effect returns no cleanup
EscapeCleanup_None(ls, c) == ls

EscapeCleanup(ls, c) == removeEventListener(ls, Listener("useEscape", c, "keydown", ""))

(* ------------------------------ handlers ------------------------------ *)
\* A handler maps the dispatch's running state st = [pressed, hides, prevented,
\* onEscape] to the state after it ran.

\* setPressed(v) of the instance that made the handler
setPressed(st, i, v) == [st EXCEPT !.pressed[i] = v]

\* variant: a plain key's handler takes any key-down for its own
handleKeyDown_AnyKey(l, e, st) ==
    IF l.isModifier
    THEN IF e.code \in modifiers[l.code].codes
         THEN setPressed(st, l.owner, TRUE) ELSE st
    ELSE setPressed(st, l.owner, TRUE)

handleKeyDown(l, e, st) ==
    IF l.isModifier
    THEN IF e.code \in modifiers[l.code].codes
         THEN setPressed(st, l.owner, TRUE) ELSE st
    ELSE IF e.code = l.code THEN setPressed(st, l.owner, TRUE)
    ELSE st

\* variant: no stuck-key recovery
handleKeyUp_NoRecovery(l, e, st) ==
    IF l.isModifier
    THEN IF e.code \in modifiers[l.code].codes
         THEN setPressed(st, l.owner, FALSE) ELSE st
    ELSE IF e.code = l.code THEN setPressed(st, l.owner, FALSE)
    ELSE st

\* variant: a group's key-up handler compares with the group's name
handleKeyUp_ExactOnly(l, e, st) ==
    IF e.code = l.code THEN setPressed(st, l.owner, FALSE)
    ELSE IF ~l.isModifier /\ ~e.meta /\ ~e.alt THEN setPressed(st, l.owner, FALSE)
    ELSE st

\* variant: the recovery rule is applied to groups as well
handleKeyUp_RecoveryForAll(l, e, st) ==
    IF l.isModifier /\ e.code \in modifiers[l.code].codes
    THEN setPressed(st, l.owner, FALSE)
    ELSE IF ~l.isModifier /\ e.code = l.code THEN setPressed(st, l.owner, FALSE)
    ELSE IF ~e.meta /\ ~e.alt THEN setPressed(st, l.owner, FALSE)
    ELSE st

\* variant: the recovery rule asks for Meta only
handleKeyUp_MetaOnly(l, e, st) ==
    IF l.isModifier
    THEN IF e.code \in modifiers[l.code].codes
         THEN setPressed(st, l.owner, FALSE) ELSE st
    ELSE IF e.code = l.code THEN setPressed(st, l.owner, FALSE)
    ELSE IF ~e.meta THEN setPressed(st, l.owner, FALSE)
    ELSE st

handleKeyUp(l, e, st) ==
    IF l.isModifier
    THEN IF e.code \in modifiers[l.code].codes
         THEN setPressed(st, l.owner, FALSE) ELSE st
    ELSE IF e.code = l.code THEN setPressed(st, l.owner, FALSE)
    ELSE IF ~e.meta /\ ~e.alt THEN setPressed(st, l.owner, FALSE)
    ELSE st

\* variant: the blur handler clears plain keys only
handleWindowBlur_PlainOnly(l, e, st) ==
    IF l.isModifier THEN st ELSE setPressed(st, l.owner, FALSE)

handleWindowBlur(l, e, st) == setPressed(st, l.owner, FALSE)

\* variant: every key-down hides the window
handleEscape_AnyKey(l, e, st) ==
    [st EXCEPT !.prevented = TRUE, !.hides[l.owner] = @ + 1]

\* variant: the handler gives up once a hide request has failed
handleEscape_StopsAfterFailure(l, e, st) ==
    IF e.key = "Escape" /\ outcome[l.owner].failed = 0
    THEN [st EXCEPT !.prevented = TRUE, !.hides[l.owner] = @ + 1]
    ELSE st

\* variant: the handler also calls the onEscape it was given
handleEscape_CallsOnEscape(l, e, st) ==
    IF e.key = "Escape"
    THEN [st EXCEPT !.prevented = TRUE, !.hides[l.owner] = @ + 1,
                    !.onEscape[l.owner] = @ + 1]
    ELSE st

\* event.preventDefault(); invoke("hide") -- the result is never looked at
handleEscape(l, e, st) ==
    IF e.key = "Escape"
    THEN [st EXCEPT !.prevented = TRUE, !.hides[l.owner] = @ + 1]
    ELSE st

Call(l, e, st) ==
    CASE l.hook = "useEscape" -> handleEscape(l, e, st)
      [] l.hook = "useKeyboard" /\ l.kind = "keydown" -> handleKeyDown(l, e, st)
      [] l.hook = "useKeyboard" /\ l.kind = "keyup" -> handleKeyUp(l, e, st)
      [] l.hook = "useKeyboard" /\ l.kind = "blur" -> handleWindowBlur(l, e, st)

RECURSIVE Deliver(_, _, _)
\* window dispatches e: every listener of e's type runs once per registration
Deliver(ls, e, st) ==
    IF BagToSet(ls) = {} THEN st
    ELSE LET l == CHOOSE x \in BagToSet(ls) : TRUE
         IN  Deliver(ls (-) SetToBag({l}), e,
                     IF l.kind = e.type THEN Call(l, e, st) ELSE st)

(* ------------------------- history variables -------------------------- *)
\* member keys of tracker i's group held after e: a member is held from its
\* key-down until its own key-up or a blur
HeldAfter(i, e) ==
    IF mounted[i] /\ tracked[i] /\ getIsModifier(target[i])
    THEN LET members == modifiers[target[i]].codes IN
         CASE e.type = "keydown" /\ e.code \in members -> held[i] \cup {e.code}
           [] e.type = "keyup" /\ e.code \in members -> held[i] \ {e.code}
           [] e.type = "blur" -> {}
           [] OTHER -> held[i]
    ELSE held[i]

\* a key-up of another key while neither Meta nor Alt is active
StuckRecovery(code, e) ==
    e.type = "keyup" /\ e.code # code /\ ~e.meta /\ ~e.alt

\* whether plain key K = target[i] has a key-down not followed by a key-up of
\* K, a blur or a stuck-recovery event, after e
ArmedAfter(i, e) ==
    IF mounted[i] /\ tracked[i] /\ target[i] # "" /\ ~getIsModifier(target[i])
    THEN CASE e.type = "keydown" /\ e.code = target[i] -> TRUE
           [] e.type = "keyup" /\ e.code = target[i] -> FALSE
           [] e.type = "blur" -> FALSE
           [] StuckRecovery(target[i], e) -> FALSE
           [] OTHER -> armed[i]
    ELSE armed[i]

\* pressed state of tracker i after e when its three handlers are the only
\* listeners of the window
SoloAfter(i, e) ==
    Deliver(KeyboardEffect(EmptyBag, i, target[i]), e,
            [pressed |-> solo, hides |-> hides, prevented |-> FALSE,
             onEscape |-> onEscapeCalls]).pressed[i]

\* whether consumer c is sent e as an Escape key-down
EscapeDown(e) == e.type = "keydown" /\ e.key = "Escape"

(* ------------------------------ actions ------------------------------- *)
\* from: the target a re-targeted tracker had before
Step(op, who, e, prevented, hid) ==
    [op |-> op, who |-> who, ev |-> e, prevented |-> prevented,
     before |-> pressed, hid |-> hid,
     from |-> IF op = "retarget" THEN target[who] ELSE ""]

NoHide == [c \in Consumers |-> 0]

\* no invoke("hide") was made yet
NoOutcome == [pending |-> 0, ok |-> 0, failed |-> 0]

\* JavaScript's undefined, which is no sequence of characters
Undefined == << "undefined" >>

Init ==
    /\ mounted = [i \in Trackers |-> FALSE]
    /\ target = [i \in Trackers |-> ""]
    /\ pressed = [i \in Trackers |-> FALSE]
    /\ listeners = EmptyBag
    /\ escMounted = [c \in Consumers |-> FALSE]
    /\ hides = [c \in Consumers |-> 0]
    /\ last = Step("init", 0, NoEvent, FALSE, NoHide)
    /\ held = [i \in Trackers |-> {}]
    /\ armed = [i \in Trackers |-> FALSE]
    /\ tracked = [i \in Trackers |-> FALSE]
    /\ solo = [i \in Trackers |-> FALSE]
    /\ escDowns = [c \in Consumers |-> 0]
    /\ outcome = [c \in Consumers |-> NoOutcome]
    /\ onEscapeCalls = [c \in Consumers |-> 0]
    /\ labelCode = Undefined
    /\ label = Undefined

\* first render of useKeyboard(code): useState(false), then the effect
Mount(i, code) ==
    /\ ~mounted[i]
    /\ mounted' = [mounted EXCEPT ![i] = TRUE]
    /\ target' = [target EXCEPT ![i] = code]
    /\ pressed' = [pressed EXCEPT ![i] = FALSE]
    /\ listeners' = KeyboardEffect(listeners, i, code)
    /\ last' = Step("mount", i, NoEvent, FALSE, NoHide)
    /\ held' = [held EXCEPT ![i] = {}]
    /\ armed' = [armed EXCEPT ![i] = FALSE]
    /\ tracked' = [tracked EXCEPT ![i] = TRUE]
    /\ solo' = [solo EXCEPT ![i] = FALSE]
    /\ UNCHANGED << escMounted, hides, escDowns, hostVars, helperVars >>

\* variant: the instance is re-created for the new code, as under a `key` prop
Retarget_Resets(i, code) ==
    /\ mounted[i]
    /\ code # target[i]
    /\ target' = [target EXCEPT ![i] = code]
    /\ pressed' = [pressed EXCEPT ![i] = FALSE]
    /\ solo' = [solo EXCEPT ![i] = FALSE]
    /\ listeners' = KeyboardEffect(KeyboardCleanup(listeners, i, target[i]), i, code)
    /\ last' = Step("retarget", i, NoEvent, FALSE, NoHide)
    /\ held' = [held EXCEPT ![i] = {}]
    /\ armed' = [armed EXCEPT ![i] = FALSE]
    /\ tracked' = [tracked EXCEPT ![i] = TRUE]
    /\ UNCHANGED << mounted, escMounted, hides, escDowns, hostVars, helperVars >>

\* re-render with another code: the deps [code, isModifier] changed, so the
\* previous effect's cleanup runs and then the effect; the state is kept
Retarget(i, code) ==
    /\ mounted[i]
    /\ code # target[i]
    /\ target' = [target EXCEPT ![i] = code]
    /\ listeners' = KeyboardEffect(KeyboardCleanup(listeners, i, target[i]), i, code)
    /\ last' = Step("retarget", i, NoEvent, FALSE, NoHide)
    /\ held' = [held EXCEPT ![i] = {}]
    /\ armed' = [armed EXCEPT ![i] = FALSE]
    /\ tracked' = [tracked EXCEPT ![i] = ~pressed[i]]
    /\ UNCHANGED << mounted, pressed, escMounted, hides, solo, escDowns,
                    hostVars, helperVars >>

\* unmount: the effect's cleanup runs and the instance's state is dropped
Unmount(i) ==
    /\ mounted[i]
    /\ mounted' = [mounted EXCEPT ![i] = FALSE]
    /\ target' = [target EXCEPT ![i] = ""]
    /\ pressed' = [pressed EXCEPT ![i] = FALSE]
    /\ listeners' = KeyboardCleanup(listeners, i, target[i])
    /\ last' = Step("unmount", i, NoEvent, FALSE, NoHide)
    /\ held' = [held EXCEPT ![i] = {}]
    /\ armed' = [armed EXCEPT ![i] = FALSE]
    /\ tracked' = [tracked EXCEPT ![i] = FALSE]
    /\ solo' = [solo EXCEPT ![i] = FALSE]
    /\ UNCHANGED << escMounted, hides, escDowns, hostVars, helperVars >>

\* a component calling useEscape mounts: its effect registers handleEscape
Attach(c) ==
    /\ ~escMounted[c]
    /\ escMounted' = [escMounted EXCEPT ![c] = TRUE]
    /\ listeners' = EscapeEffect(listeners, c)
    /\ last' = Step("attach", c, NoEvent, FALSE, NoHide)
    /\ UNCHANGED << mounted, target, pressed, hides, held, armed, tracked, solo,
                    escDowns, hostVars, helperVars >>

\* it unmounts: the effect's cleanup unregisters handleEscape
Detach(c) ==
    /\ escMounted[c]
    /\ escMounted' = [escMounted EXCEPT ![c] = FALSE]
    /\ listeners' = EscapeCleanup(listeners, c)
    /\ last' = Step("detach", c, NoEvent, FALSE, NoHide)
    /\ UNCHANGED << mounted, target, pressed, hides, held, armed, tracked, solo,
                    escDowns, hostVars, helperVars >>

\* the window receives a key-down, a key-up or a blur
Dispatch(e) ==
    /\ EscapeDown(e) => \A c \in Consumers : escDowns[c] < MaxEscapes
    /\ \E st \in { Deliver(listeners, e,
                           [pressed |-> pressed, hides |-> hides, prevented |-> FALSE,
                            onEscape |-> onEscapeCalls]) } :
          /\ pressed' = st.pressed
          /\ hides' = st.hides
          /\ onEscapeCalls' = st.onEscape
          /\ outcome' = [c \in Consumers |->
                           [outcome[c] EXCEPT !.pending = @ + st.hides[c] - hides[c]]]
          /\ last' = Step("dispatch", 0, e, st.prevented,
                          [c \in Consumers |-> st.hides[c] - hides[c]])
    /\ held' = [i \in DOMAIN held |-> HeldAfter(i, e)]
    /\ armed' = [i \in DOMAIN armed |-> ArmedAfter(i, e)]
    /\ solo' = [i \in DOMAIN solo |-> SoloAfter(i, e)]
    /\ escDowns' = [c \in Consumers |->
                      IF escMounted[c] /\ EscapeDown(e)
                      THEN escDowns[c] + 1 ELSE escDowns[c]]
    /\ UNCHANGED << mounted, target, listeners, escMounted, tracked, helperVars >>

\* the trackers on one window; no component calls useEscape
Next ==
    \/ \E i \in Trackers, code \in Targets : Mount(i, code)
    \/ \E i \in Trackers, code \in Targets : Retarget(i, code)
    \/ \E i \in Trackers : Unmount(i)
    \/ \E e \in Events : Dispatch(e)

Spec == Init /\ [][Next]_vars

\* the Escape listener beside one plain-key tracker
NextEscape ==
    \/ \E c \in Consumers : Attach(c)
    \/ \E c \in Consumers : Detach(c)
    \/ \E code \in {"KeyK"} : Mount(1, code)
    \/ Unmount(1)
    \/ \E e \in Events : Dispatch(e)

SpecEscape == Init /\ [][NextEscape]_vars

\* the host completes one pending hide command of consumer c
HideResolves(c) ==
    /\ outcome[c].pending > 0
    /\ outcome' = [outcome EXCEPT ![c].pending = @ - 1, ![c].ok = @ + 1]
    /\ last' = Step("resolve", c, NoEvent, FALSE, NoHide)
    /\ UNCHANGED << mounted, target, pressed, listeners, escMounted, hides, held,
                    armed, tracked, solo, escDowns, onEscapeCalls, helperVars >>

\* the host fails one: the promise rejects and nothing handles the rejection
HideRejects(c) ==
    /\ outcome[c].pending > 0
    /\ outcome' = [outcome EXCEPT ![c].pending = @ - 1, ![c].failed = @ + 1]
    /\ last' = Step("reject", c, NoEvent, FALSE, NoHide)
    /\ UNCHANGED << mounted, target, pressed, listeners, escMounted, hides, held,
                    armed, tracked, solo, escDowns, onEscapeCalls, helperVars >>

\* the Escape listener and the host's answers to the hide command; a
\* command that never completes stays pending
NextHide ==
    \/ \E c \in Consumers : Attach(c)
    \/ \E c \in Consumers : Detach(c)
    \/ \E e \in Events : Dispatch(e)
    \/ \E c \in Consumers : HideResolves(c)
    \/ \E c \in Consumers : HideRejects(c)

SpecHide == Init /\ [][NextHide]_vars

(* --------------------------- getLabelFromCode -------------------------- *)
\* A key identifier or a label is the sequence of its characters; a glyph of
\* the label table is one character, written by its code point.

\* the entries of codeToLabel: << code, label >>
codeToLabelEntries ==
    { << << "S", "p", "a", "c", "e" >>, << "S", "p", "a", "c", "e" >> >>,
      << << "B", "a", "c", "k", "s", "p", "a", "c", "e" >>, << "B", "a", "c", "k", "s", "p", "a", "c", "e" >> >>,
      << << "E", "n", "t", "e", "r" >>, << "E", "n", "t", "e", "r" >> >>,
      << << "E", "s", "c", "a", "p", "e" >>, << "E", "s", "c" >> >>,
      << << "S", "h", "i", "f", "t", "L", "e", "f", "t" >>, << "U+21E7" >> >>,
      << << "S", "h", "i", "f", "t", "R", "i", "g", "h", "t" >>, << "U+21E7" >> >>,
      << << "S", "h", "i", "f", "t" >>, << "U+21E7" >> >>,
      << << "C", "o", "n", "t", "r", "o", "l", "L", "e", "f", "t" >>, << "U+2303" >> >>,
      << << "C", "o", "n", "t", "r", "o", "l", "R", "i", "g", "h", "t" >>, << "U+2303" >> >>,
      << << "C", "o", "n", "t", "r", "o", "l" >>, << "U+2303" >> >>,
      << << "A", "l", "t", "L", "e", "f", "t" >>, << "U+2325" >> >>,
      << << "A", "l", "t", "R", "i", "g", "h", "t" >>, << "U+2325" >> >>,
      << << "A", "l", "t" >>, << "U+2325" >> >>,
      << << "M", "e", "t", "a", "L", "e", "f", "t" >>, << "U+2318" >> >>,
      << << "M", "e", "t", "a", "R", "i", "g", "h", "t" >>, << "U+2318" >> >>,
      << << "M", "e", "t", "a" >>, << "U+2318" >> >>,
      << << "A", "r", "r", "o", "w", "U", "p" >>, << "U+25B2" >> >>,
      << << "A", "r", "r", "o", "w", "D", "o", "w", "n" >>, << "U+25BC" >> >>,
      << << "A", "r", "r", "o", "w", "L", "e", "f", "t" >>, << "U+25C4" >> >>,
      << << "A", "r", "r", "o", "w", "R", "i", "g", "h", "t" >>, << "U+25BA" >> >> }

\* the own properties of the codeToLabel object
codeToLabel ==
    [ k \in { en[1] : en \in codeToLabelEntries } |->
        (CHOOSE en \in codeToLabelEntries : en[1] = k)[2] ]

\* the property names every object literal inherits from Object.prototype
ObjectPrototype ==
    { << "c", "o", "n", "s", "t", "r", "u", "c", "t", "o", "r" >>,
      << "h", "a", "s", "O", "w", "n", "P", "r", "o", "p", "e", "r", "t", "y" >>,
      << "i", "s", "P", "r", "o", "t", "o", "t", "y", "p", "e", "O", "f" >>,
      << "p", "r", "o", "p", "e", "r", "t", "y", "I", "s", "E", "n", "u", "m", "e", "r", "a", "b", "l", "e" >>,
      << "t", "o", "L", "o", "c", "a", "l", "e", "S", "t", "r", "i", "n", "g" >>,
      << "t", "o", "S", "t", "r", "i", "n", "g" >>,
      << "v", "a", "l", "u", "e", "O", "f" >>,
      << "_", "_", "p", "r", "o", "t", "o", "_", "_" >>,
      << "_", "_", "d", "e", "f", "i", "n", "e", "G", "e", "t", "t", "e", "r", "_", "_" >>,
      << "_", "_", "d", "e", "f", "i", "n", "e", "S", "e", "t", "t", "e", "r", "_", "_" >>,
      << "_", "_", "l", "o", "o", "k", "u", "p", "G", "e", "t", "t", "e", "r", "_", "_" >>,
      << "_", "_", "l", "o", "o", "k", "u", "p", "S", "e", "t", "t", "e", "r", "_", "_" >> }

\* what reading an inherited property gives: a function or an object of
\* Object.prototype, no string
Inherited(name) == << "Object.prototype" >> \o name

\* code in codeToLabel: own and inherited properties
In(code) == code \in DOMAIN codeToLabel \/ code \in ObjectPrototype

\* codeToLabel[code]
Get(code) ==
    IF code \in DOMAIN codeToLabel THEN codeToLabel[code] ELSE Inherited(code)

\* String.prototype.slice(start, end) and slice(start), for indexes >= 0
slice(str, start, end) ==
    SubSeq(str, start + 1, IF end < Len(str) THEN end ELSE Len(str))

sliceFrom(str, start) == SubSeq(str, start + 1, Len(str))

getLabelFromCode(code) ==
    IF code = Undefined \/ code = << >> THEN code
    ELSE IF slice(code, 0, 3) = << "K", "e", "y" >> THEN sliceFrom(code, 3)
    ELSE IF slice(code, 0, 5) = << "D", "i", "g", "i", "t" >> THEN sliceFrom(code, 5)
    ELSE IF In(code) THEN Get(code)
    ELSE code

\* the identifiers given to getLabelFromCode: undefined, the table's keys,
\* the inherited names, and a marker or a part of one followed by a few
\* characters
LabelPrefixes ==
    { << >>, << "K", "e", "y" >>, << "D", "i", "g", "i", "t" >>,
      << "K", "e" >>, << "D", "i", "g", "i" >> }

LabelChars == { "A", "5", "F", "1", "y" }

LabelTails == UNION { [1..n -> LabelChars] : n \in 0..MaxTail }

LabelInputs ==
    {Undefined} \cup DOMAIN codeToLabel \cup ObjectPrototype
      \cup { p \o t : p \in LabelPrefixes, t \in LabelTails }

\* a component asks for the label of code
GetLabel(code) ==
    /\ labelCode' = code
    /\ label' = getLabelFromCode(code)
    /\ UNCHANGED << mounted, target, pressed, listeners, escMounted, hides, last,
                    held, armed, tracked, solo, escDowns, hostVars >>

NextLabel == \E code \in LabelInputs : GetLabel(code)

SpecLabel == Init /\ [][NextLabel]_vars

(* ---------------------------- useModifiers ---------------------------- *)
\* the codes of the four useKeyboard calls of useModifiers, in call order
useModifiers == << "Shift", "Control", "Alt", "Meta" >>

ModifierTrackers == DOMAIN useModifiers

\* what useModifiers returns, from the pressed states p of its four trackers
Returned(p) == [Shift |-> p[1], Control |-> p[2], Alt |-> p[3], Meta |-> p[4]]

InitModifiers ==
    /\ mounted = [i \in ModifierTrackers |-> FALSE]
    /\ target = [i \in ModifierTrackers |-> ""]
    /\ pressed = [i \in ModifierTrackers |-> FALSE]
    /\ listeners = EmptyBag
    /\ escMounted = [c \in Consumers |-> FALSE]
    /\ hides = [c \in Consumers |-> 0]
    /\ last = Step("init", 0, NoEvent, FALSE, NoHide)
    /\ held = [i \in ModifierTrackers |-> {}]
    /\ armed = [i \in ModifierTrackers |-> FALSE]
    /\ tracked = [i \in ModifierTrackers |-> FALSE]
    /\ solo = [i \in ModifierTrackers |-> FALSE]
    /\ escDowns = [c \in Consumers |-> 0]
    /\ outcome = [c \in Consumers |-> NoOutcome]
    /\ onEscapeCalls = [c \in Consumers |-> 0]
    /\ labelCode = Undefined
    /\ label = Undefined

\* a component calling useModifiers mounts: its four useKeyboard instances
\* are created and their effects run, in call order
MountModifiers ==
    /\ \A i \in ModifierTrackers : ~mounted[i]
    /\ mounted' = [i \in ModifierTrackers |-> TRUE]
    /\ target' = [i \in ModifierTrackers |-> useModifiers[i]]
    /\ pressed' = [i \in ModifierTrackers |-> FALSE]
    /\ listeners' =
         KeyboardEffect(
           KeyboardEffect(
             KeyboardEffect(
               KeyboardEffect(listeners, 1, useModifiers[1]),
               2, useModifiers[2]),
             3, useModifiers[3]),
           4, useModifiers[4])
    /\ last' = Step("mount", 0, NoEvent, FALSE, NoHide)
    /\ UNCHANGED << held, armed, tracked >>   \* no event history is kept here
    /\ solo' = [i \in ModifierTrackers |-> FALSE]
    /\ UNCHANGED << escMounted, hides, escDowns, hostVars, helperVars >>

\* it unmounts: the four cleanups run and the four states are dropped
UnmountModifiers ==
    /\ \A i \in ModifierTrackers : mounted[i]
    /\ mounted' = [i \in ModifierTrackers |-> FALSE]
    /\ target' = [i \in ModifierTrackers |-> ""]
    /\ pressed' = [i \in ModifierTrackers |-> FALSE]
    /\ listeners' =
         KeyboardCleanup(
           KeyboardCleanup(
             KeyboardCleanup(
               KeyboardCleanup(listeners, 1, target[1]),
               2, target[2]),
             3, target[3]),
           4, target[4])
    /\ last' = Step("unmount", 0, NoEvent, FALSE, NoHide)
    /\ solo' = [i \in ModifierTrackers |-> FALSE]
    /\ UNCHANGED << escMounted, hides, escDowns, held, armed, tracked,
                    hostVars, helperVars >>

NextModifiers ==
    \/ MountModifiers
    \/ UnmountModifiers
    \/ \E e \in ModifierEvents : Dispatch(e)

SpecModifiers == InitModifiers /\ [][NextModifiers]_vars

(* ---------------------------- properties ------------------------------ *)
\* tracker i is mounted on a key or a group, so its effect bound handlers
Bound(i) == mounted[i] /\ target[i] # ""

Plain(i) == Bound(i) /\ ~getIsModifier(target[i])

Group(i) == Bound(i) /\ getIsModifier(target[i])

Members(i) == modifiers[target[i]].codes

\* the three handlers tracker i's effect registers for code
HandlersOf(i, code) ==
    { Listener("useKeyboard", i, kind, code) : kind \in {"keydown", "keyup", "blur"} }

\* every handler on window that tracker i registered
Registered(i) ==
    { l \in BagToSet(listeners) : l.hook = "useKeyboard" /\ l.owner = i }

Dispatched == last.op = "dispatch"

\* C1: for a group tracker whose history is one of events only, pressed is
\* true iff at least one member key of the group is held per those events.
C1_PressedIffMemberHeld ==
    \A i \in Trackers :
        Group(i) /\ tracked[i] => (pressed[i] <=> held[i] # {})

\* C2: right after a window blur, every tracker mounted on a key or a group
\* has pressed = false, whatever happened before.
C2_BlurClearsPressed ==
    Dispatched /\ last.ev.type = "blur"
        => \A i \in Trackers : Bound(i) => ~pressed[i]

\* a blur was delivered to a group tracker and to a plain-key tracker that
\* were both pressed, neither having seen a key-up
C2_Witness ==
    /\ Dispatched /\ last.ev.type = "blur"
    /\ \E i, j \in Trackers :
         /\ Group(i) /\ last.before[i] /\ ~pressed[i]
         /\ Plain(j) /\ last.before[j] /\ ~pressed[j]

\* C3: for a plain-key tracker on K whose history is one of events only,
\* pressed is true iff that history has a key-down of K not followed by a
\* key-up of K, a blur or a stuck-recovery event.
C3_PlainPressedIffArmed ==
    \A i \in Trackers :
        Plain(i) /\ tracked[i] => (pressed[i] <=> armed[i])

\* a plain key is still pressed after a key-up of another key that came with
\* Meta active: the key-down is followed by an event that does not disqualify
C3_Witness ==
    \E i \in Trackers :
        /\ Plain(i) /\ tracked[i] /\ pressed[i] /\ last.before[i]
        /\ Dispatched /\ last.ev.type = "keyup" /\ last.ev.code # target[i]
        /\ last.ev.meta

\* C4: a key-up of another key while neither Meta nor Alt is active leaves a
\* plain-key tracker unpressed.
C4_StuckRecoveryClears ==
    Dispatched /\ last.ev.type = "keyup" /\ ~last.ev.meta /\ ~last.ev.alt
        => \A i \in Trackers :
             Plain(i) /\ last.ev.code # target[i] => ~pressed[i]

\* key-down KeyK, then key-up KeyJ with no modifier: KeyK was pressed, is not
C4_Witness ==
    \E i \in Trackers :
        /\ Plain(i) /\ target[i] = "KeyK" /\ last.before[i] /\ ~pressed[i]
        /\ Dispatched /\ last.ev.type = "keyup" /\ last.ev.code = "KeyJ"
        /\ ~last.ev.meta /\ ~last.ev.alt

\* C5: a key-down of a member code of group M leaves M's tracker pressed and
\* a key-up of a member code leaves it unpressed, whatever it was before.
C5_MemberKeySetsPressed ==
    \A i \in Trackers :
        Dispatched /\ Group(i) /\ last.ev.code \in Members(i)
            => /\ last.ev.type = "keydown" => pressed[i]
               /\ last.ev.type = "keyup" => ~pressed[i]

\* a member's key-up and a member's key-down met both prior states: here the
\* key-up of one member cleared the tracker while the other member is held
C5_Witness ==
    \E i \in Trackers :
        /\ Group(i) /\ tracked[i] /\ Dispatched
        /\ last.ev.type = "keyup" /\ last.ev.code = "ShiftLeft"
        /\ last.before[i] /\ ~pressed[i] /\ held[i] = {"ShiftRight"}

\* C6: an unmounted tracker has no handler left on window, and no step that
\* leaves it unmounted changes its pressed state.
C6_DetachRemovesHandlers ==
    /\ [](\A i \in Trackers : ~mounted[i] => Registered(i) = {})
    /\ [][\A i \in Trackers :
            ~mounted[i] /\ ~mounted'[i] => pressed'[i] = pressed[i]]_vars

\* a tracker that was pressed has just been unmounted: none of its handlers
\* is left, while those of a tracker still mounted are
C6_Witness ==
    \E i, j \in Trackers :
        /\ last.op = "unmount" /\ last.who = i /\ last.before[i]
        /\ ~mounted[i] /\ ~pressed[i] /\ Registered(i) = {}
        /\ Bound(j) /\ Registered(j) # {}

\* C7: while consumer c is mounted, an Escape key-down makes its handler
\* request one hide and suppress the default, so that its hide requests
\* number the Escape key-downs delivered; any other key-down requests no
\* hide and is not suppressed.
C7_OneHidePerEscape ==
    /\ \A c \in Consumers : hides[c] = escDowns[c]
    /\ Dispatched /\ last.ev.type = "keydown" =>
         IF last.ev.key = "Escape"
         THEN \A c \in Consumers :
                escMounted[c] => last.hid[c] = 1 /\ last.prevented
         ELSE ~last.prevented /\ \A c \in Consumers : last.hid[c] = 0

\* the second Escape key-down delivered to a mounted consumer
C7_Witness ==
    \E c \in Consumers :
        /\ escMounted[c] /\ hides[c] = 2 /\ last.hid[c] = 1 /\ last.prevented
        /\ Dispatched /\ last.ev.type = "keydown" /\ last.ev.key = "Escape"

\* C8: each tracker's pressed state is the one it has when its handlers are
\* the only listeners, and the handlers on window that a tracker registered
\* are those of its own current target, once each, whatever the other
\* trackers do.
C8_TrackersIndependent ==
    \A i \in Trackers :
        /\ pressed[i] = solo[i]
        /\ Registered(i) = (IF Bound(i) THEN HandlersOf(i, target[i]) ELSE {})
        /\ \A l \in Registered(i) : CopiesIn(l, listeners) = 1

\* a tracker was re-targeted onto the key of another tracker that is
\* pressed: the two are on one key, bound once each, and differ in state
C8_Witness ==
    \E i, j \in Trackers :
        /\ i # j /\ last.op = "retarget" /\ last.who = i
        /\ Plain(i) /\ Plain(j) /\ target[i] = target[j]
        /\ ~pressed[i] /\ pressed[j]

\* C9: a tracker with an empty target has no handler on window, and if it
\* was unpressed when its target became empty it stays unpressed.
C9_EmptyTargetNoOp ==
    \A i \in Trackers :
        mounted[i] /\ target[i] = ""
            => /\ Registered(i) = {}
               /\ tracked[i] => ~pressed[i]

\* a key-down that pressed another tracker reached the window while a
\* tracker with an empty target was mounted
C9_Witness ==
    \E i, j \in Trackers :
        /\ mounted[i] /\ target[i] = "" /\ tracked[i] /\ ~pressed[i]
        /\ Bound(j) /\ pressed[j] /\ ~last.before[j]
        /\ Dispatched /\ last.ev.type = "keydown"

\* C10: handleEscape of consumer c is on window exactly while c is mounted,
\* once; with no consumer mounted an Escape key-down requests no hide and is
\* not suppressed.
C10_EscapeRegistration ==
    /\ \A c \in Consumers :
         CopiesIn(Listener("useEscape", c, "keydown", ""), listeners)
            = (IF escMounted[c] THEN 1 ELSE 0)
    /\ Dispatched /\ EscapeDown(last.ev) /\ (\A c \in Consumers : ~escMounted[c])
         => ~last.prevented /\ \A c \in Consumers : last.hid[c] = 0

\* an Escape key-down after the consumer, which had hidden the window once,
\* was detached
C10_Witness ==
    /\ Dispatched /\ EscapeDown(last.ev)
    /\ \A c \in Consumers : ~escMounted[c]
    /\ \E c \in Consumers : hides[c] = 1
    /\ ~last.prevented

\* pressed state of tracker i after the step's event when exactly the three
\* handlers of its current target take it, once each
ByCurrentHandlers(i) ==
    Deliver(KeyboardEffect(EmptyBag, i, target[i]), last.ev,
            [pressed |-> last.before, hides |-> hides, prevented |-> FALSE,
             onEscape |-> onEscapeCalls]).pressed[i]

\* C13: every tracker mounted on a key or a group has exactly one key-down,
\* one key-up and one blur handler on window, each made for its current
\* target, also right after a re-target; an event changes its state as those
\* three handlers do, so none is handled twice or by a handler of an old target.
C13_ReboundOnRetarget ==
    \A i \in Trackers :
        Bound(i) =>
          /\ \A kind \in {"keydown", "keyup", "blur"} :
               /\ { l \in Registered(i) : l.kind = kind }
                    = { Listener("useKeyboard", i, kind, target[i]) }
               /\ CopiesIn(Listener("useKeyboard", i, kind, target[i]), listeners) = 1
          /\ Dispatched => pressed[i] = ByCurrentHandlers(i)

\* the key of the previous target is pressed after a pressed tracker was
\* moved from KeyK to Shift: the key-down does not reach a handler for KeyK
C13_Witness ==
    \E i \in Trackers :
        /\ Group(i) /\ ~tracked[i] /\ ~pressed[i] /\ ~last.before[i]
        /\ Dispatched /\ last.ev.type = "keydown" /\ last.ev.code = "KeyK"

\* C14: a key-up of a code that is no member of its group leaves a group
\* tracker's pressed state as it was, whatever the Meta and Alt flags.
C14_GroupIgnoresForeignKeyUp ==
    \A i \in Trackers :
        Dispatched /\ last.ev.type = "keyup" /\ Group(i)
          /\ last.ev.code \notin Members(i)
            => pressed[i] = last.before[i]

\* Shift is held and stays pressed over a key-up of KeyJ with no modifier
\* flag, the event that clears a plain key
C14_Witness ==
    \E i \in Trackers :
        /\ Group(i) /\ last.before[i] /\ pressed[i]
        /\ Dispatched /\ last.ev.type = "keyup" /\ last.ev.code = "KeyJ"
        /\ ~last.ev.meta /\ ~last.ev.alt

\* C15: for a plain-key tracker on K, a key-up of another code with Meta or
\* Alt active, and a key-down of another code, leave pressed as it was.
C15_PlainIgnoresFlaggedKeyUp ==
    \A i \in Trackers :
        Dispatched /\ Plain(i) /\ last.ev.code # target[i]
            => /\ last.ev.type = "keyup" /\ (last.ev.meta \/ last.ev.alt)
                    => pressed[i] = last.before[i]
               /\ last.ev.type = "keydown" => pressed[i] = last.before[i]

\* KeyK stays pressed over a key-up of KeyJ with Alt active and Meta not
C15_Witness ==
    \E i \in Trackers :
        /\ Plain(i) /\ target[i] = "KeyK" /\ last.before[i] /\ pressed[i]
        /\ Dispatched /\ last.ev.type = "keyup" /\ last.ev.code = "KeyJ"
        /\ last.ev.alt /\ ~last.ev.meta

\* C17: right after a tracker's target changed, every tracker's pressed
\* state, the re-targeted one's included, is what it was before the change.
C17_RetargetKeepsPressed ==
    last.op = "retarget" => pressed = last.before

\* a pressed tracker on KeyK was given an empty target and is still pressed
C17_Witness ==
    \E i \in Trackers :
        /\ last.op = "retarget" /\ last.who = i /\ last.from = "KeyK"
        /\ mounted[i] /\ target[i] = "" /\ pressed[i]

\* C16: each of the four booleans useModifiers returns is the pressed state
\* of one tracker and equals what that tracker has on its own; a key-down or
\* key-up changes at most the boolean of the group the key belongs to
\* (KeyboardEvent.key names it), and none when the key is of no group.
C16_ModifiersIndependent ==
    /\ \A i \in ModifierTrackers :
         mounted[i] => target[i] = useModifiers[i] /\ pressed[i] = solo[i]
    /\ Dispatched /\ last.ev.type \in {"keydown", "keyup"} =>
         \A g \in DOMAIN Returned(pressed) :
            last.ev.key # g => Returned(pressed)[g] = Returned(last.before)[g]

\* with Shift and Meta held, the key-down of ControlLeft turns Control on
\* and leaves the other three as they were
C16_Witness ==
    /\ Dispatched /\ last.ev.type = "keydown" /\ last.ev.code = "ControlLeft"
    /\ Returned(last.before) =
         [Shift |-> TRUE, Control |-> FALSE, Alt |-> FALSE, Meta |-> TRUE]
    /\ Returned(pressed) =
         [Shift |-> TRUE, Control |-> TRUE, Alt |-> FALSE, Meta |-> TRUE]

\* C12: whatever became of the earlier hide requests, the handler of a
\* mounted consumer stays registered once and answers an Escape key-down
\* with exactly one new request, left pending; every request made is pending,
\* resolved or rejected, none is retried or withdrawn.
C12_FireAndForget ==
    \A c \in Consumers :
        /\ hides[c] = outcome[c].pending + outcome[c].ok + outcome[c].failed
        /\ CopiesIn(Listener("useEscape", c, "keydown", ""), listeners)
             = (IF escMounted[c] THEN 1 ELSE 0)
        /\ Dispatched /\ EscapeDown(last.ev) /\ escMounted[c]
             => last.hid[c] = 1 /\ outcome[c].pending >= 1

\* an Escape key-down after a hide request failed: one more request is made
C12_Witness ==
    \E c \in Consumers :
        /\ Dispatched /\ EscapeDown(last.ev) /\ escMounted[c]
        /\ outcome[c].failed = 1 /\ outcome[c].pending = 1 /\ last.hid[c] = 1

\* C18: handleEscape never calls the onEscape given to useEscape; what an
\* Escape key-down does is preventDefault and one hide request.
C18_OnEscapeNeverCalled ==
    \A c \in Consumers : onEscapeCalls[c] = 0

\* the first Escape key-down delivered to a mounted consumer: the default is
\* suppressed, a hide is requested, onEscape was not called
C18_Witness ==
    \E c \in Consumers :
        /\ Dispatched /\ EscapeDown(last.ev) /\ escMounted[c]
        /\ last.prevented /\ hides[c] = 1 /\ onEscapeCalls[c] = 0

\* the identifier str starts with the characters of marker
StartsWith(str, marker) ==
    /\ Len(str) >= Len(marker)
    /\ \A k \in 1..Len(marker) : str[k] = marker[k]

\* what is left of str after its first n characters
Remainder(str, n) == [k \in 1..(Len(str) - n) |-> str[k + n]]

\* the label the rules give for code, in their order
LabelByRules(code) ==
    IF code = Undefined \/ code = << >> THEN code
    ELSE IF StartsWith(code, << "K", "e", "y" >>) THEN Remainder(code, 3)
    ELSE IF StartsWith(code, << "D", "i", "g", "i", "t" >>) THEN Remainder(code, 5)
    ELSE IF \E en \in codeToLabelEntries : en[1] = code
         THEN (CHOOSE en \in codeToLabelEntries : en[1] = code)[2]
    ELSE code

\* C11: getLabelFromCode returns, for every identifier, what the rules give
\* in their order: the input itself when it is empty or undefined, the rest
\* after "Key", else the rest after "Digit", else the entry of the label
\* table when the identifier is a key of the table, else the identifier.
C11_LabelRules ==
    label = LabelByRules(labelCode)

=============================================================================
